---- MODULE Spec2Model ----
(***************************************************************************)
(* Model of the PINACLE trusted-setup pipeline (setup.sh): a sequence of   *)
(* runs of the script over one working directory.  Each run walks the      *)
(* script top to bottom; every circom / snarkjs invocation may succeed or  *)
(* return non-zero, and a run may be interrupted between two invocations.  *)
(* The files of the working directory persist from run to run.             *)
(* The contract deployer (deploy.go) is a second program, modelled by its  *)
(* own specification DeploySpec over its own variables.                    *)
(***************************************************************************)
EXTENDS Integers, Sequences, FiniteSets, TLC

(* ------------------------------ bounds --------------------------------- *)

\* number of successive runs of setup.sh that are explored
MaxRuns == 2

(* --------------------------- text helpers ------------------------------ *)
\* Paths and arguments are sequences of one-character strings.

Digits == {"0", "1", "2", "3", "4", "5", "6", "7", "8", "9"}

CircomExt == <<".", "c", "i", "r", "c", "o", "m">>

\* the last n characters of s (all of s when it is shorter)
Suffix(s, n) == IF Len(s) <= n THEN s ELSE SubSeq(s, Len(s) - n + 1, Len(s))

\* [[ "${CIRCOM_FILE}" != *.circom ]] is false: the glob *.circom matches
HasCircomExt(s) == Len(s) >= Len(CircomExt) /\ Suffix(s, Len(CircomExt)) = CircomExt

\* [[ "${POWER_OF_TAU}" =~ ^[0-9]+$ ]]
IsDecimal(s) == Len(s) >= 1 /\ \A i \in 1..Len(s) : s[i] \in Digits

\* position of the last "/" of s, 0 when there is none
LastSlash(s) == IF \E i \in 1..Len(s) : s[i] = "/"
                THEN CHOOSE i \in 1..Len(s) : s[i] = "/" /\ \A j \in (i + 1)..Len(s) : s[j] # "/"
                ELSE 0

\* basename "${CIRCOM_FILE}" (paths here never end in "/")
Basename(s) == SubSeq(s, LastSlash(s) + 1, Len(s))

\* position of the first "." of s, Len(s) + 1 when there is none
FirstDot(s) == IF \E i \in 1..Len(s) : s[i] = "."
               THEN CHOOSE i \in 1..Len(s) : s[i] = "." /\ \A j \in 1..(i - 1) : s[j] # "."
               ELSE Len(s) + 1

\* "${CIRCOM_BASENAME%%.*}": the longest suffix matching .* is removed
CIRCOM_NAME(file) == SubSeq(Basename(file), 1, FirstDot(Basename(file)) - 1)

\* the stem circom names its outputs after: the basename without ".circom"
CircomStem(file) == SubSeq(Basename(file), 1, Len(Basename(file)) - Len(CircomExt))

(* ------------------------------ inputs --------------------------------- *)

ArgEmpty   == << >>
ArgCircuit == <<"c", "/", "A">> \o CircomExt
ArgOther   == <<"c", "/", "B">> \o CircomExt
ArgMissing == <<"c", "/", "M">> \o CircomExt
ArgNotExt  == <<"c", "/", "A", ".", "t", "x", "t">>

\* values of --circom that a run may be given
CircomArgs == {ArgEmpty, ArgCircuit, ArgOther, ArgMissing, ArgNotExt}

\* a file whose name is nothing but the extension
ArgHidden == <<"c", "/">> \o CircomExt

\* values of --circom that a single probing run may be given
ProbeArgs == CircomArgs \cup {ArgHidden}

\* regular files of the working directory that are circuit sources ([[ -f ]])
SourceFiles == {ArgCircuit, ArgOther, ArgNotExt, ArgHidden}

PowerEmpty == << >>
Power12    == <<"1", "2">>
PowerBad   == <<"1", "x">>

\* values of --power that a run may be given
PowerArgs == {PowerEmpty, Power12, PowerBad}

\* the programs found on PATH: which of the two external tools `command -v`
\* finds, beside uuidgen
PathChoices == {{"circom", "snarkjs", "uuidgen"}, {"circom", "uuidgen"},
                {"snarkjs", "uuidgen"}, {"uuidgen"}}

\* the same, with the environment in which uuidgen is not installed
ProbePathChoices == PathChoices \cup {{"circom", "snarkjs"}}

(* ------------------------------- files --------------------------------- *)
\* A file is <<kind, key>>: the key is the exponent for the files of
\* powersOfTau/ that carry it in their name, the circuit name for the files
\* of circuits/build/<name>/, and empty for challenge_0003 / response_0003.

NoKey == << >>

Pot(n, w)       == <<"pot_" \o n, w>>
\* PTAU_FILE="${POWERS_DIR}/pot${POWER_OF_TAU}_final.ptau"
PTAU_FILE(w)    == <<"pot_final", w>>
PotBeacon(w)    == <<"pot_beacon", w>>
Challenge       == <<"challenge_0003", NoKey>>
Response        == <<"response_0003", NoKey>>
R1cs(n)         == <<"r1cs", n>>
Sym(n)          == <<"sym", n>>
Wasm(n)         == <<"wasm", n>>
Zkey(k, n)      == <<"zkey_" \o k, n>>
\* FINAL_ZKEY="${KEYS_DIR}/${CIRCOM_NAME}_final.zkey"
FINAL_ZKEY(n)   == <<"zkey_final", n>>
ChallengeP2(n)  == <<"challenge_phase2_0003", n>>
ResponseP2(n)   == <<"response_phase2_0003", n>>
\* VK_JSON="${KEYS_DIR}/verification_key.json"
VK_JSON(n)      == <<"verification_key", n>>

\* the files rm -f names after the final ptau verify
PtauIntermediates(w) ==
    {Pot("0000", w), Pot("0001", w), Pot("0002", w), Challenge, Response,
     Pot("0003", w), PotBeacon(w)}

\* the files rm -f names after the verification-key export
ZkeyIntermediates(n) ==
    {Zkey("0000", n), Zkey("0001", n), Zkey("0002", n), ChallengeP2(n),
     ResponseP2(n), Zkey("0003", n)}

ValidPowers == {w \in PowerArgs : IsDecimal(w)}
ValidNames  == {CIRCOM_NAME(f) : f \in {g \in ProbeArgs : HasCircomExt(g)}}
              \cup {CircomStem(f) : f \in {g \in ProbeArgs : HasCircomExt(g)}}

Files ==
    UNION {PtauIntermediates(w) \cup {PTAU_FILE(w)} : w \in ValidPowers}
    \cup UNION {ZkeyIntermediates(n) \cup {R1cs(n), Sym(n), Wasm(n), FINAL_ZKEY(n), VK_JSON(n)}
                : n \in ValidNames}

\* content of a file: Absent, the number of the run that wrote it, or Partial
\* (what an invocation that returned non-zero may have left behind)
Absent  == 0
Partial == MaxRuns + 1

(* ------------------------------ state ---------------------------------- *)

VARIABLES
    pc,          \* position of the running script; "idle" before the first run, "exited" after a run
    circomFile,  \* CIRCOM_FILE of the current run
    power,       \* POWER_OF_TAU of the current run
    onPath,      \* the tools `command -v` finds in the current run
    runNo,       \* number of the current run (0 before the first)
    fs,          \* the working directory: file -> content
    dirs,        \* the directories mkdir -p has created
    exitStatus,  \* exit status of the run that ended; -1 while a run is in progress
    calls,       \* the circom / snarkjs invocations of the current run, in order
    skipped,     \* the stages whose else-branch ("already exists") the current run took
    cleaned,     \* the stages whose rm -f the current run completed
    verifiedRun, \* the stages whose final verify succeeded in the current run
    verified,    \* the files whose present content passed its stage's final verify
    fs0,         \* the working directory as the current run found it
    failSnap,    \* the working directory at the moment an invocation of this run failed
    dirs0,       \* the directories as the current run found them
    purged,      \* the stages whose intermediate files rm -f removed and no run has rewritten since
    prev,        \* summary of the previous run
    source,      \* circuit source file -> version of its content
    tokens       \* the -e arguments of the current run's invocations, in order

setupVars == <<pc, circomFile, power, onPath, runNo, fs, dirs, exitStatus, calls,
               skipped, cleaned, verifiedRun, verified, fs0, failSnap, dirs0, purged, prev,
               source, tokens>>

\* the state of deploy.go
VARIABLES
    dpc,           \* position in main; "d_idle" before the first run, "d_exited" after a run
    dRun,          \* number of the current run of the deployer (0 before the first)
    rawFB,         \* foodbanks.ExtractAddresses(): a slice of pointers, some nil
    fb,            \* derefAddresses(rawFB)
    addr,          \* mimcAddress, verifierAddress, zkLoginAddress
    chain,         \* what happened on the chain in the current run, in order
    receipts,      \* contract -> status of its deployment receipt, -1 while there is none
    zkArgs,        \* the constructor arguments given to DeployZklogin
    book,          \* contractAddresses: the entries added by AddContract, in order
    addressesJson, \* the content of addresses.json
    dExit          \* exit status of the deployer; -1 while it runs

deployVars == <<dpc, dRun, rawFB, fb, addr, chain, receipts, zkArgs, book, addressesJson, dExit>>

vars == <<setupVars, deployVars>>

Exists(f)   == fs[f] # Absent
\* a tool can use a file only when it is there and was written completely
Readable(f) == fs[f] # Absent /\ fs[f] # Partial

NoFiles == [f \in Files |-> Absent]
NoPrev  == [exit |-> -1, circomFile |-> ArgEmpty, power |-> PowerEmpty, fromEmpty |-> FALSE]

(* ------------------------- the script's steps -------------------------- *)
\* One position per external invocation, in the order of the script.

Phase1Pcs  == {"pot_new", "pot_contribute1", "pot_contribute2", "pot_export_challenge",
               "pot_challenge_contribute", "pot_import_response", "pot_verify",
               "pot_beacon", "pot_prepare_phase2", "pot_verify_final"}
CompilePcs == {"circom", "r1cs_info", "r1cs_print"}
Phase2Pcs  == {"zkey_setup", "zkey_contribute1", "zkey_contribute2", "zkey_export_bellman",
               "zkey_bellman_contribute", "zkey_import_bellman", "zkey_verify",
               "zkey_beacon", "zkey_verify_final", "zkey_export_vk"}
ToolPcs    == Phase1Pcs \cup CompilePcs \cup Phase2Pcs
GatePcs    == {"gate_ptau", "gate_r1cs", "gate_vk"}
RmPcs      == {"pot_rm", "zkey_rm"}

\* the files an invocation reads (f: the circuit argument, w: the exponent)
InsTable(p, f, w) ==
    LET n == CIRCOM_NAME(f) IN
    CASE p = "pot_new"                  -> {}
      [] p = "pot_contribute1"          -> {Pot("0000", w)}
      [] p = "pot_contribute2"          -> {Pot("0001", w)}
      [] p = "pot_export_challenge"     -> {Pot("0002", w)}
      [] p = "pot_challenge_contribute" -> {Challenge}
      [] p = "pot_import_response"      -> {Pot("0002", w), Response}
      [] p = "pot_verify"               -> {Pot("0003", w)}
      [] p = "pot_beacon"               -> {Pot("0003", w)}
      [] p = "pot_prepare_phase2"       -> {PotBeacon(w)}
      [] p = "pot_verify_final"         -> {PTAU_FILE(w)}
      [] p = "circom"                   -> {}
      [] p = "r1cs_info"                -> {R1cs(n)}
      [] p = "r1cs_print"               -> {R1cs(n), Sym(n)}
      [] p = "zkey_setup"               -> {R1cs(n), PTAU_FILE(w)}
      [] p = "zkey_contribute1"         -> {Zkey("0000", n)}
      [] p = "zkey_contribute2"         -> {Zkey("0001", n)}
      [] p = "zkey_export_bellman"      -> {Zkey("0002", n)}
      [] p = "zkey_bellman_contribute"  -> {ChallengeP2(n)}
      [] p = "zkey_import_bellman"      -> {Zkey("0002", n), ResponseP2(n)}
      [] p = "zkey_verify"              -> {R1cs(n), PTAU_FILE(w), Zkey("0003", n)}
      [] p = "zkey_beacon"              -> {Zkey("0003", n)}
      [] p = "zkey_verify_final"        -> {R1cs(n), PTAU_FILE(w), FINAL_ZKEY(n)}
      [] p = "zkey_export_vk"           -> {FINAL_ZKEY(n)}
      [] OTHER                          -> {}

\* variant: the second contribution is chained onto the initial file, not onto the first contribution
Ins_SkipFirst(p, f, w) == IF p = "pot_contribute2" THEN {Pot("0000", w)} ELSE InsTable(p, f, w)

Ins(p, f, w) == InsTable(p, f, w)

\* the files an invocation writes
Outs(p, f, w) ==
    LET n == CIRCOM_NAME(f) IN
    CASE p = "pot_new"                  -> {Pot("0000", w)}
      [] p = "pot_contribute1"          -> {Pot("0001", w)}
      [] p = "pot_contribute2"          -> {Pot("0002", w)}
      [] p = "pot_export_challenge"     -> {Challenge}
      [] p = "pot_challenge_contribute" -> {Response}
      [] p = "pot_import_response"      -> {Pot("0003", w)}
      [] p = "pot_beacon"               -> {PotBeacon(w)}
      [] p = "pot_prepare_phase2"       -> {PTAU_FILE(w)}
      [] p = "circom"                   -> {R1cs(CircomStem(f)), Wasm(CircomStem(f)), Sym(CircomStem(f))}
      [] p = "zkey_setup"               -> {Zkey("0000", n)}
      [] p = "zkey_contribute1"         -> {Zkey("0001", n)}
      [] p = "zkey_contribute2"         -> {Zkey("0002", n)}
      [] p = "zkey_export_bellman"      -> {ChallengeP2(n)}
      [] p = "zkey_bellman_contribute"  -> {ResponseP2(n)}
      [] p = "zkey_import_bellman"      -> {Zkey("0003", n)}
      [] p = "zkey_beacon"              -> {FINAL_ZKEY(n)}
      [] p = "zkey_export_vk"           -> {VK_JSON(n)}
      [] OTHER                          -> {}

\* the position that follows p when p's command returns zero
NextPcTable(p) ==
    CASE p = "pot_new"                  -> "pot_contribute1"
      [] p = "pot_contribute1"          -> "pot_contribute2"
      [] p = "pot_contribute2"          -> "pot_export_challenge"
      [] p = "pot_export_challenge"     -> "pot_challenge_contribute"
      [] p = "pot_challenge_contribute" -> "pot_import_response"
      [] p = "pot_import_response"      -> "pot_verify"
      [] p = "pot_verify"               -> "pot_beacon"
      [] p = "pot_beacon"               -> "pot_prepare_phase2"
      [] p = "pot_prepare_phase2"       -> "pot_verify_final"
      [] p = "pot_verify_final"         -> "pot_rm"
      [] p = "pot_rm"                   -> "gate_r1cs"
      [] p = "circom"                   -> "r1cs_info"
      [] p = "r1cs_info"                -> "r1cs_print"
      [] p = "r1cs_print"               -> "gate_vk"
      [] p = "zkey_setup"               -> "zkey_contribute1"
      [] p = "zkey_contribute1"         -> "zkey_contribute2"
      [] p = "zkey_contribute2"         -> "zkey_export_bellman"
      [] p = "zkey_export_bellman"      -> "zkey_bellman_contribute"
      [] p = "zkey_bellman_contribute"  -> "zkey_import_bellman"
      [] p = "zkey_import_bellman"      -> "zkey_verify"
      [] p = "zkey_verify"              -> "zkey_beacon"
      [] p = "zkey_beacon"              -> "zkey_verify_final"
      [] p = "zkey_verify_final"        -> "zkey_export_vk"
      [] p = "zkey_export_vk"           -> "zkey_rm"
      [] p = "zkey_rm"                  -> "report"
      [] OTHER                          -> "report"

\* variant: the Powers of Tau cleanup runs before the final verify
NextPc_RmBeforeVerify(p) ==
    IF p = "pot_prepare_phase2" THEN "pot_rm"
    ELSE IF p = "pot_rm" THEN "pot_verify_final"
    ELSE IF p = "pot_verify_final" THEN "gate_r1cs"
    ELSE NextPcTable(p)

\* variant: the Powers of Tau beacon is applied before the third contribution is verified
NextPc_BeaconBeforeVerify(p) ==
    IF p = "pot_import_response" THEN "pot_beacon"
    ELSE IF p = "pot_beacon" THEN "pot_verify"
    ELSE IF p = "pot_verify" THEN "pot_prepare_phase2"
    ELSE NextPcTable(p)

\* variant: the verification key is exported before the beacon makes the final zkey
NextPc_ExportBeforeBeacon(p) ==
    IF p = "zkey_verify" THEN "zkey_export_vk"
    ELSE IF p = "zkey_export_vk" THEN "zkey_beacon"
    ELSE IF p = "zkey_verify_final" THEN "zkey_rm"
    ELSE NextPcTable(p)

NextPc(p) == NextPcTable(p)

\* variant: without errexit the script goes on to the next command
OnFailure_NoErrexit(p) == NextPcTable(p)

\* set -euo pipefail: a command that returns non-zero ends the script
OnFailure(p) == "exited"

\* the final verify of each ceremony stage, and what it verifies
FinalVerifyOf(p, f, w) ==
    CASE p = "pot_verify_final"  -> {PTAU_FILE(w)}
      [] p = "zkey_verify_final" -> {FINAL_ZKEY(CIRCOM_NAME(f))}
      [] OTHER                   -> {}

StageOf(p) ==
    CASE p \in Phase1Pcs \cup {"pot_rm", "gate_ptau"}  -> "phase1"
      [] p \in CompilePcs \cup {"gate_r1cs"}           -> "compile"
      [] OTHER                                          -> "phase2"

(* ---------------------------- validation ------------------------------- *)

\* variant: the check that snarkjs is on PATH is missing
ValidationError_NoSnarkjsCheck(f, w, t) ==
    IF f = ArgEmpty THEN "circom flag is required"
    ELSE IF f \notin SourceFiles THEN "circom file does not exist"
    ELSE IF ~HasCircomExt(f) THEN "circom file must have .circom extension"
    ELSE IF w = PowerEmpty THEN "power flag is required"
    ELSE IF ~IsDecimal(w) THEN "power of tau must be a valid integer"
    ELSE IF "circom" \notin t THEN "circom is not on PATH"
    ELSE "none"

\* the checks of "Basic validation", in the order of the script; "none" when all pass
ValidationError(f, w, t) ==
    IF f = ArgEmpty THEN "circom flag is required"
    ELSE IF f \notin SourceFiles THEN "circom file does not exist"
    ELSE IF ~HasCircomExt(f) THEN "circom file must have .circom extension"
    ELSE IF w = PowerEmpty THEN "power flag is required"
    ELSE IF ~IsDecimal(w) THEN "power of tau must be a valid integer"
    ELSE IF "circom" \notin t THEN "circom is not on PATH"
    ELSE IF "snarkjs" \notin t THEN "snarkjs is not on PATH"
    ELSE "none"

(* ------------------------------ gates ---------------------------------- *)

\* variant: the Powers of Tau gate tests the first file of the chain
Phase1GateFile_FirstFile(w) == Pot("0000", w)

\* if [[ ! -f "${PTAU_FILE}" ]]
Phase1GateFile(w) == PTAU_FILE(w)
\* variant: the compile gate tests the wasm output
CompileGateFile_Wasm(n) == Wasm(n)

\* if [[ ! -f "${BUILD_DIR}/${CIRCOM_NAME}.r1cs" ]]
CompileGateFile(n) == R1cs(n)
\* variant: the Groth16 gate tests a numbered zkey, which the stage's rm -f removes
Phase2GateFile_Intermediate(n) == Zkey("0003", n)

\* if [[ ! -f "${VK_JSON}" ]]
Phase2GateFile(n) == VK_JSON(n)

(* ------------------------------ entropy -------------------------------- *)
\* -e="$(uuidgen | tr -d '-' | head -c40)": the text of each stage of the
\* pipeline, as a sequence of characters.

HexSamples == {"0", "a", "f"}

Rep(c, n) == [i \in 1..n |-> c]

\* what uuidgen prints: 8-4-4-4-12 hexadecimal digits and a newline
UuidText(a, b) ==
    Rep(a, 8) \o <<"-">> \o Rep(b, 4) \o <<"-">> \o <<"4">> \o Rep(a, 3) \o <<"-">>
        \o <<"8">> \o Rep(b, 3) \o <<"-">> \o Rep(a, 12) \o <<"\n">>

\* the outputs of uuidgen that are explored
Uuids == {UuidText(a, b) : a \in HexSamples, b \in HexSamples}

\* tr -d c
TrDelete(c, s) == SelectSeq(s, LAMBDA x : x # c)

\* head -c n
HeadC(n, s) == IF Len(s) <= n THEN s ELSE SubSeq(s, 1, n)

\* $( ... ): the output of the command with its trailing newlines removed
RECURSIVE CommandSubst(_)
CommandSubst(s) ==
    IF Len(s) >= 1 /\ s[Len(s)] = "\n" THEN CommandSubst(SubSeq(s, 1, Len(s) - 1)) ELSE s

\* the byte count given to head -c
HeadBytes == 40

\* the value of -e when uuidgen printed u
EntropyToken(u) == CommandSubst(HeadC(HeadBytes, TrDelete("-", u)))

\* the invocations that are given -e
EntropyPcs == {"pot_contribute1", "pot_contribute2", "pot_challenge_contribute",
               "zkey_contribute1", "zkey_contribute2", "zkey_bellman_contribute"}

\* variant: the token of the previous invocation is kept in a variable and passed again
EntropyGen_Reuse(r, k) == <<r, IF k = 0 THEN 1 ELSE k>>

\* the call of the generator whose output an invocation receives: each -e holds
\* its own command substitution, so it is the (k+1)-th call of run r when k
\* invocations of the run were given a token before
EntropyGen(r, k) == <<r, k + 1>>

\* what the pipeline uuidgen | tr | head prints into the command substitution:
\* nothing when the shell does not find uuidgen (the substitution is part of
\* an argument, so its status is not the status of the command)
GeneratorOutputs(t) == IF "uuidgen" \in t THEN Uuids ELSE {<< >>}

\* the -e arguments of the run after the invocation at p, uuidgen having printed u
TokensAfter(p, u) ==
    IF p \in EntropyPcs
    THEN Append(tokens, [pc |-> p, gen |-> EntropyGen(runNo, Len(tokens)),
                         len |-> Len(EntropyToken(u))])
    ELSE tokens

(* ------------------------- deploy.go: helpers -------------------------- *)

\* number of successive runs of the deployer that are explored
MaxDeploys == 2

\* largest number of foodbank accounts that is explored
MaxFoodbanks == 3

Contracts == {"mimc", "verifier", "zklogin"}

\* a nil *common.Address, and the addresses of the foodbank accounts
Nil == "nil"
FoodbankAddrs == {"0xF1", "0xF2"}

\* the slices foodbanks.ExtractAddresses() may return
RawLists == UNION {[1..n -> FoodbankAddrs \cup {Nil}] : n \in 0..MaxFoodbanks}

\* the loop of derefAddresses, from index i on, addrs being the slice built so far
RECURSIVE DerefLoop(_, _, _)
DerefLoop(ptrs, i, addrs) ==
    IF i > Len(ptrs) THEN addrs
    ELSE DerefLoop(ptrs, i + 1, IF ptrs[i] # Nil THEN Append(addrs, ptrs[i]) ELSE addrs)

\* variant: the loop puts each entry in front of the slice built so far
RECURSIVE DerefLoopPrepend(_, _, _)
DerefLoopPrepend(ptrs, i, addrs) ==
    IF i > Len(ptrs) THEN addrs
    ELSE DerefLoopPrepend(ptrs, i + 1, IF ptrs[i] # Nil THEN <<ptrs[i]>> \o addrs ELSE addrs)

derefAddresses_Reversed(ptrs) == DerefLoopPrepend(ptrs, 1, << >>)

derefAddresses(ptrs) == DerefLoop(ptrs, 1, << >>)

\* a contract address; the address a deployment returns depends on the run
NoAddr == <<"none", 0>>
NewAddr(c, r) == <<c, r>>

NoAddressesFile == [written |-> FALSE, entries |-> << >>]

\* package deployer/internal/addresses: the record starts empty, AddContract
\* adds one named address to it, SaveToFile writes every entry of the record
NewAddresses == << >>
AddContract(b, name, a) == Append(b, <<name, a>>)
SaveToFile(b) == [written |-> TRUE, entries |-> b]

\* the steps of main that can end in logger.Fatal before any deployment
PrepPcs   == {"load_config", "delete_dir", "create_dir", "mimc_sponge", "find_key",
              "decrypt_key", "connect", "transactor"}
DeployPcs == {"deploy_mimc", "deploy_verifier", "deploy_zklogin"}
WaitPcs   == {"wait_mimc", "wait_verifier", "wait_zklogin"}
CodePcs   == {"code_mimc", "code_verifier", "code_zklogin"}
AddPcs    == {"add_mimc", "add_verifier", "add_zklogin"}

\* every call whose error main answers with logger.Fatal
FalliblePcs == PrepPcs \cup DeployPcs \cup WaitPcs \cup CodePcs

\* the contract a step of main is about
ContractAt(p) ==
    CASE p \in {"deploy_mimc", "wait_mimc", "code_mimc", "add_mimc"} -> "mimc"
      [] p \in {"deploy_verifier", "wait_verifier", "code_verifier", "add_verifier"} -> "verifier"
      [] OTHER -> "zklogin"

\* the step that follows p when p's call returns no error
DNextPcTable(p) ==
    CASE p = "load_config"     -> "delete_dir"
      [] p = "delete_dir"      -> "create_dir"
      [] p = "create_dir"      -> "mimc_sponge"
      [] p = "mimc_sponge"     -> "accounts"
      [] p = "accounts"        -> "find_key"
      [] p = "find_key"        -> "decrypt_key"
      [] p = "decrypt_key"     -> "connect"
      [] p = "connect"         -> "transactor"
      [] p = "transactor"      -> "deploy_mimc"
      [] p = "deploy_mimc"     -> "wait_mimc"
      [] p = "wait_mimc"       -> "code_mimc"
      [] p = "code_mimc"       -> "add_mimc"
      [] p = "add_mimc"        -> "deploy_verifier"
      [] p = "deploy_verifier" -> "wait_verifier"
      [] p = "wait_verifier"   -> "code_verifier"
      [] p = "code_verifier"   -> "add_verifier"
      [] p = "add_verifier"    -> "deref"
      [] p = "deref"           -> "deploy_zklogin"
      [] p = "deploy_zklogin"  -> "wait_zklogin"
      [] p = "wait_zklogin"    -> "code_zklogin"
      [] p = "code_zklogin"    -> "add_zklogin"
      [] p = "add_zklogin"     -> "save"
      [] p = "save"            -> "finish"
      [] OTHER                 -> "d_exited"

\* variant: the addresses are saved before zkLogin is deployed
DNextPc_SaveEarly(p) ==
    CASE p = "add_verifier" -> "save"
      [] p = "save"         -> "deref"
      [] p = "add_zklogin"  -> "finish"
      [] OTHER              -> DNextPcTable(p)

\* variant: main does not wait for the Mimc transaction to be mined
DNextPc_NoWaitMimc(p) == IF p = "deploy_mimc" THEN "code_mimc" ELSE DNextPcTable(p)

DNextPc(p) == DNextPcTable(p)

\* the constructor arguments of zklogin.DeployZklogin
ZkLoginArgs(m, v, f) == [mimc |-> m, verifier |-> v, fb |-> f]
NoArgs == [mimc |-> NoAddr, verifier |-> NoAddr, fb |-> << >>]

(* ------------------------------ actions -------------------------------- *)

Init ==
    /\ pc = "idle"
    /\ circomFile = ArgEmpty
    /\ power = PowerEmpty
    /\ onPath = {}
    /\ runNo = 0
    /\ fs = NoFiles
    /\ dirs = {}
    /\ exitStatus = -1
    /\ calls = << >>
    /\ skipped = {}
    /\ cleaned = {}
    /\ verifiedRun = {}
    /\ verified = {}
    /\ fs0 = NoFiles
    /\ failSnap = NoFiles
    /\ dirs0 = {}
    /\ purged = {}
    /\ prev = NoPrev
    /\ source = [f \in SourceFiles |-> 1]
    /\ tokens = << >>
    /\ dpc = "d_idle"
    /\ dRun = 0
    /\ rawFB = << >>
    /\ fb = << >>
    /\ addr = [c \in Contracts |-> NoAddr]
    /\ chain = << >>
    /\ receipts = [c \in Contracts |-> -1]
    /\ zkArgs = NoArgs
    /\ book = << >>
    /\ addressesJson = NoAddressesFile
    /\ dExit = -1

\* ./setup.sh --circom f --power w, with the tools of t on PATH
StartRun ==
    /\ UNCHANGED deployVars
    /\ pc \in {"idle", "exited"}
    /\ runNo < MaxRuns
    /\ \E f \in CircomArgs, w \in PowerArgs, t \in PathChoices :
          /\ circomFile' = f
          /\ power' = w
          /\ onPath' = t
    /\ pc' = "validate"
    /\ runNo' = runNo + 1
    /\ exitStatus' = -1
    /\ calls' = << >>
    /\ skipped' = {}
    /\ cleaned' = {}
    /\ verifiedRun' = {}
    /\ fs0' = fs
    /\ failSnap' = fs
    /\ dirs0' = dirs
    /\ prev' = IF runNo = 0 THEN NoPrev
               ELSE [exit |-> exitStatus, circomFile |-> circomFile, power |-> power,
                     fromEmpty |-> (fs0 = NoFiles)]
    /\ tokens' = << >>
    /\ UNCHANGED <<fs, dirs, verified, purged, source>>

\* lines 63-104: every failed check prints its message and exits 1
Validate ==
    /\ UNCHANGED deployVars
    /\ pc = "validate"
    /\ IF ValidationError(circomFile, power, onPath) # "none"
       THEN pc' = "exited" /\ exitStatus' = 1
       ELSE pc' = "gate_ptau" /\ exitStatus' = exitStatus
    /\ UNCHANGED <<circomFile, power, onPath, runNo, fs, dirs, calls, skipped, cleaned,
                   verifiedRun, verified, fs0, failSnap, dirs0, purged, prev, source, tokens>>

\* variant: a stage whose first chain file is left over from an earlier run is
\* resumed at its first contribution
ChainEntry_Resume(st) ==
    IF st = "phase1"
    THEN (IF Exists(Pot("0000", power)) THEN "pot_contribute1" ELSE "pot_new")
    ELSE (IF Exists(Zkey("0000", CIRCOM_NAME(circomFile))) THEN "zkey_contribute1"
          ELSE "zkey_setup")

\* the invocation a ceremony stage starts with once its gate found the gate file
\* absent: snarkjs powersoftau new, respectively snarkjs groth16 setup
ChainEntry(st) == IF st = "phase1" THEN "pot_new" ELSE "zkey_setup"

\* mkdir -p "${POWERS_DIR}" and the test that opens the Powers of Tau stage
GatePtau ==
    /\ UNCHANGED deployVars
    /\ pc = "gate_ptau"
    /\ dirs' = dirs \cup {"powersOfTau"}
    /\ IF ~Exists(Phase1GateFile(power))
       THEN pc' = ChainEntry("phase1") /\ skipped' = skipped
       ELSE pc' = "gate_r1cs" /\ skipped' = skipped \cup {"phase1"}
    /\ UNCHANGED <<circomFile, power, onPath, runNo, fs, exitStatus, calls, cleaned,
                   verifiedRun, verified, fs0, failSnap, dirs0, purged, prev, source, tokens>>

\* mkdir -p "${BUILD_DIR}" and the test that opens the compile stage
GateR1cs ==
    /\ UNCHANGED deployVars
    /\ pc = "gate_r1cs"
    /\ dirs' = dirs \cup {"build"}
    /\ IF ~Exists(CompileGateFile(CIRCOM_NAME(circomFile)))
       THEN pc' = "circom" /\ skipped' = skipped
       ELSE pc' = "gate_vk" /\ skipped' = skipped \cup {"compile"}
    /\ UNCHANGED <<circomFile, power, onPath, runNo, fs, exitStatus, calls, cleaned,
                   verifiedRun, verified, fs0, failSnap, dirs0, purged, prev, source, tokens>>

\* mkdir -p "${KEYS_DIR}" and the test that opens the Groth16 stage
GateVk ==
    /\ UNCHANGED deployVars
    /\ pc = "gate_vk"
    /\ dirs' = dirs \cup {"keys"}
    /\ IF ~Exists(Phase2GateFile(CIRCOM_NAME(circomFile)))
       THEN pc' = ChainEntry("phase2") /\ skipped' = skipped
       ELSE pc' = "report" /\ skipped' = skipped \cup {"phase2"}
    /\ UNCHANGED <<circomFile, power, onPath, runNo, fs, exitStatus, calls, cleaned,
                   verifiedRun, verified, fs0, failSnap, dirs0, purged, prev, source, tokens>>

\* what a successful invocation writes into its outputs: the verification key
\* carries the version of the zkey it was exported from, every other file is new
Content(p, f) == IF p = "zkey_export_vk" THEN fs[FINAL_ZKEY(CIRCOM_NAME(f))] ELSE runNo

\* a circom / snarkjs invocation that returns zero: it read its inputs and wrote its outputs
ToolOk ==
    /\ UNCHANGED deployVars
    /\ pc \in ToolPcs
    /\ \A i \in Ins(pc, circomFile, power) : Readable(i)
    /\ pc = "circom" => circomFile \in SourceFiles
    /\ fs' = [x \in Files |-> IF x \in Outs(pc, circomFile, power)
                              THEN Content(pc, circomFile) ELSE fs[x]]
    /\ calls' = Append(calls, [pc |-> pc, ok |-> TRUE])
    /\ verified' = (verified \ Outs(pc, circomFile, power))
                      \cup FinalVerifyOf(pc, circomFile, power)
    /\ verifiedRun' = IF FinalVerifyOf(pc, circomFile, power) # {}
                      THEN verifiedRun \cup {StageOf(pc)} ELSE verifiedRun
    /\ purged' = IF Outs(pc, circomFile, power) # {} THEN purged \ {StageOf(pc)} ELSE purged
    /\ \E u \in GeneratorOutputs(onPath) : tokens' = TokensAfter(pc, u)
    /\ pc' = NextPc(pc)
    /\ UNCHANGED <<circomFile, power, onPath, runNo, dirs, exitStatus, skipped, cleaned,
                   fs0, failSnap, dirs0, prev, source>>

\* a circom / snarkjs invocation that returns non-zero; it may leave some of
\* its outputs half written
ToolFail ==
    /\ UNCHANGED deployVars
    /\ pc \in ToolPcs
    /\ \E torn \in SUBSET Outs(pc, circomFile, power) :
          /\ fs' = [x \in Files |-> IF x \in torn THEN Partial ELSE fs[x]]
          /\ verified' = verified \ torn
          /\ purged' = IF torn # {} THEN purged \ {StageOf(pc)} ELSE purged
    /\ \E u \in GeneratorOutputs(onPath) : tokens' = TokensAfter(pc, u)
    /\ failSnap' = fs'
    /\ calls' = Append(calls, [pc |-> pc, ok |-> FALSE])
    /\ pc' = IF OnFailure(pc) = "exited" THEN "exited" ELSE NextPc(pc)
    /\ exitStatus' = IF OnFailure(pc) = "exited" THEN 1 ELSE exitStatus
    /\ UNCHANGED <<circomFile, power, onPath, runNo, dirs, skipped, cleaned, verifiedRun,
                   fs0, dirs0, prev, source>>

\* variant: the Powers of Tau rm -f forgets the beacon file
RmFiles_ForgetsBeacon(p, f, w) ==
    IF p = "pot_rm" THEN PtauIntermediates(w) \ {PotBeacon(w)}
    ELSE ZkeyIntermediates(CIRCOM_NAME(f))

\* variant: the Powers of Tau rm -f also names the final file
RmFiles_AlsoFinal(p, f, w) ==
    IF p = "pot_rm" THEN PtauIntermediates(w) \cup {PTAU_FILE(w)}
    ELSE ZkeyIntermediates(CIRCOM_NAME(f))

\* the files the rm -f at p names
RmFiles(p, f, w) ==
    IF p = "pot_rm" THEN PtauIntermediates(w) ELSE ZkeyIntermediates(CIRCOM_NAME(f))

\* rm -f of a stage's intermediate files
RmOk ==
    /\ UNCHANGED deployVars
    /\ pc \in RmPcs
    /\ fs' = [x \in Files |-> IF x \in RmFiles(pc, circomFile, power) THEN Absent ELSE fs[x]]
    /\ cleaned' = cleaned \cup {StageOf(pc)}
    /\ purged' = purged \cup {StageOf(pc)}
    /\ pc' = NextPc(pc)
    /\ UNCHANGED <<circomFile, power, onPath, runNo, dirs, exitStatus, calls, skipped,
                   verifiedRun, verified, fs0, failSnap, dirs0, prev, source, tokens>>

\* rm -f returns non-zero (the directory does not allow unlinking): nothing is removed
RmFail ==
    /\ UNCHANGED deployVars
    /\ pc \in RmPcs
    /\ pc' = IF OnFailure(pc) = "exited" THEN "exited" ELSE NextPc(pc)
    /\ exitStatus' = IF OnFailure(pc) = "exited" THEN 1 ELSE exitStatus
    /\ UNCHANGED <<circomFile, power, onPath, runNo, fs, dirs, calls, skipped, cleaned,
                   verifiedRun, verified, fs0, failSnap, dirs0, purged, prev, source, tokens>>

\* the operator interrupts the script between two commands
Interrupt ==
    /\ UNCHANGED deployVars
    /\ pc \in (GatePcs \cup ToolPcs \cup RmPcs)
    /\ pc' = "exited"
    /\ exitStatus' = 130
    /\ UNCHANGED <<circomFile, power, onPath, runNo, fs, dirs, calls, skipped, cleaned,
                   verifiedRun, verified, fs0, failSnap, dirs0, purged, prev, source, tokens>>

\* between two runs the developer edits a circuit source
EditSource ==
    /\ UNCHANGED deployVars
    /\ pc = "exited"
    /\ runNo < MaxRuns
    /\ \E f \in {g \in SourceFiles \cap CircomArgs : HasCircomExt(g)} :
          /\ source[f] <= runNo
          /\ source' = [source EXCEPT ![f] = runNo + 1]
    /\ UNCHANGED <<pc, circomFile, power, onPath, runNo, fs, dirs, exitStatus, calls, skipped,
                   cleaned, verifiedRun, verified, fs0, failSnap, dirs0, purged, prev, tokens>>

\* the closing report: the script falls off its end with status 0
Report ==
    /\ UNCHANGED deployVars
    /\ pc = "report"
    /\ pc' = "exited"
    /\ exitStatus' = 0
    /\ UNCHANGED <<circomFile, power, onPath, runNo, fs, dirs, calls, skipped, cleaned,
                   verifiedRun, verified, fs0, failSnap, dirs0, purged, prev, source, tokens>>

Next ==
    \/ StartRun
    \/ Validate
    \/ GatePtau
    \/ GateR1cs
    \/ GateVk
    \/ ToolOk
    \/ ToolFail
    \/ RmOk
    \/ RmFail
    \/ Interrupt
    \/ EditSource
    \/ Report

Spec == Init /\ [][Next]_vars

\* the runs in which every command returns zero and nothing interrupts the
\* script; a script that can take a step does take it
NextOk ==
    \/ StartRun
    \/ Validate
    \/ GatePtau
    \/ GateR1cs
    \/ GateVk
    \/ ToolOk
    \/ RmOk
    \/ EditSource
    \/ Report

OkSpec == Init /\ [][NextOk]_vars /\ WF_vars(NextOk)

\* ./setup.sh --circom f --power w in a fresh working directory, with any of
\* the explored file names and any of the explored sets of installed programs
StartProbe ==
    /\ UNCHANGED deployVars
    /\ pc = "idle"
    /\ \E f \in ProbeArgs, w \in PowerArgs, t \in ProbePathChoices :
          /\ circomFile' = f
          /\ power' = w
          /\ onPath' = t
    /\ pc' = "validate"
    /\ runNo' = runNo + 1
    /\ UNCHANGED <<fs, dirs, exitStatus, calls, skipped, cleaned, verifiedRun, verified,
                   fs0, failSnap, dirs0, purged, prev, source, tokens>>

\* one run of the script from an empty working directory
ProbeNext ==
    \/ StartProbe
    \/ Validate
    \/ GatePtau
    \/ GateR1cs
    \/ GateVk
    \/ ToolOk
    \/ ToolFail
    \/ RmOk
    \/ RmFail
    \/ Interrupt
    \/ Report

ProbeSpec == Init /\ [][ProbeNext]_vars

(* ------------------------- deploy.go: actions -------------------------- *)

\* go run cmd/deploy/deploy.go
DStart ==
    /\ dpc \in {"d_idle", "d_exited"}
    /\ dRun < MaxDeploys
    /\ dpc' = "load_config"
    /\ dRun' = dRun + 1
    /\ rawFB' = << >>
    /\ fb' = << >>
    /\ addr' = [c \in Contracts |-> NoAddr]
    /\ chain' = << >>
    /\ receipts' = [c \in Contracts |-> -1]
    /\ zkArgs' = NoArgs
    /\ book' = NewAddresses
    /\ dExit' = -1
    /\ UNCHANGED addressesJson
    /\ UNCHANGED setupVars

\* configuration, directories, MiMC sponge, key, client, transactor: the call returns no error
DPrepare ==
    /\ dpc \in PrepPcs
    /\ dpc' = DNextPc(dpc)
    /\ UNCHANGED <<dRun, rawFB, fb, addr, chain, receipts, zkArgs, book, addressesJson, dExit>>
    /\ UNCHANGED setupVars

\* foodbanks.CreateAccounts: the accounts whose addresses ExtractAddresses returns later
DAccounts ==
    /\ dpc = "accounts"
    /\ rawFB' \in RawLists
    /\ dpc' = DNextPc(dpc)
    /\ UNCHANGED <<dRun, fb, addr, chain, receipts, zkArgs, book, addressesJson, dExit>>
    /\ UNCHANGED setupVars

\* a call returns an error: logger.Fatal ends the process with status 1
DFatal ==
    /\ dpc \in FalliblePcs
    /\ dpc' = "d_exited"
    /\ dExit' = 1
    /\ UNCHANGED <<dRun, rawFB, fb, addr, chain, receipts, zkArgs, book, addressesJson>>
    /\ UNCHANGED setupVars

\* mimc.DeployMimc / verifier.DeployVerifier / zklogin.DeployZklogin: the
\* deployment transaction is sent and the contract's address returned
DDeploy ==
    /\ dpc \in DeployPcs
    /\ addr' = [addr EXCEPT ![ContractAt(dpc)] = NewAddr(ContractAt(dpc), dRun)]
    /\ chain' = Append(chain, <<"sent", ContractAt(dpc)>>)
    /\ zkArgs' = IF dpc = "deploy_zklogin"
                  THEN ZkLoginArgs(addr["mimc"], addr["verifier"], fb) ELSE zkArgs
    /\ dpc' = DNextPc(dpc)
    /\ UNCHANGED <<dRun, rawFB, fb, receipts, book, addressesJson, dExit>>
    /\ UNCHANGED setupVars

\* bind.WaitMined returns the receipt: the transaction was mined, with status 1
\* or, when the constructor reverted, with status 0
DWaitMined ==
    /\ dpc \in WaitPcs
    /\ \E st \in {0, 1} : receipts' = [receipts EXCEPT ![ContractAt(dpc)] = st]
    /\ chain' = Append(chain, <<"mined", ContractAt(dpc)>>)
    /\ dpc' = DNextPc(dpc)
    /\ UNCHANGED <<dRun, rawFB, fb, addr, zkArgs, book, addressesJson, dExit>>
    /\ UNCHANGED setupVars

\* ethclient.CodeAt returns the code, whose size is logged
DCodeAt ==
    /\ dpc \in CodePcs
    /\ dpc' = DNextPc(dpc)
    /\ UNCHANGED <<dRun, rawFB, fb, addr, chain, receipts, zkArgs, book, addressesJson, dExit>>
    /\ UNCHANGED setupVars

\* contractAddresses.AddContract(name, address)
DAddContract ==
    /\ dpc \in AddPcs
    /\ book' = AddContract(book, ContractAt(dpc), addr[ContractAt(dpc)])
    /\ dpc' = DNextPc(dpc)
    /\ UNCHANGED <<dRun, rawFB, fb, addr, chain, receipts, zkArgs, addressesJson, dExit>>
    /\ UNCHANGED setupVars

\* fb := derefAddresses(foodbanks.ExtractAddresses())
DDeref ==
    /\ dpc = "deref"
    /\ fb' = derefAddresses(rawFB)
    /\ dpc' = DNextPc(dpc)
    /\ UNCHANGED <<dRun, rawFB, addr, chain, receipts, zkArgs, book, addressesJson, dExit>>
    /\ UNCHANGED setupVars

\* contractAddresses.SaveToFile(addressesPath)
DSave ==
    /\ dpc = "save"
    /\ addressesJson' = SaveToFile(book)
    /\ dpc' = DNextPc(dpc)
    /\ UNCHANGED <<dRun, rawFB, fb, addr, chain, receipts, zkArgs, book, dExit>>
    /\ UNCHANGED setupVars

\* "Deployer finished successfully": main returns
DFinish ==
    /\ dpc = "finish"
    /\ dpc' = DNextPc(dpc)
    /\ dExit' = 0
    /\ UNCHANGED <<dRun, rawFB, fb, addr, chain, receipts, zkArgs, book, addressesJson>>
    /\ UNCHANGED setupVars

DeployNext ==
    \/ DStart
    \/ DPrepare
    \/ DAccounts
    \/ DFatal
    \/ DDeploy
    \/ DWaitMined
    \/ DCodeAt
    \/ DAddContract
    \/ DDeref
    \/ DSave
    \/ DFinish

DeploySpec == Init /\ [][DeployNext]_vars

(* ------------------------------ claims --------------------------------- *)

\* the circuit name of the current run
Name == CIRCOM_NAME(circomFile)

\* the current run passed "Basic validation"
ArgsAccepted == runNo >= 1 /\ ValidationError(circomFile, power, onPath) = "none"

\* the current run follows a run with the same circuit and exponent that
\* started from a store with no artifacts and ended with exit status 0
FollowsCleanSuccess ==
    /\ runNo >= 2
    /\ prev.exit = 0
    /\ prev.fromEmpty
    /\ prev.circomFile = circomFile
    /\ prev.power = power

\* C1: a run that immediately follows a successful run from an empty store,
\* with the same circuit and exponent, invokes no circom or snarkjs operation
\* and leaves pot<N>_final.ptau, C.r1cs, C_final.zkey and verification_key.json
\* as it found them.
C1_SecondRunIdempotent ==
    FollowsCleanSuccess =>
        /\ calls = << >>
        /\ \A x \in {PTAU_FILE(power), R1cs(Name), FINAL_ZKEY(Name), VK_JSON(Name)} :
              fs[x] = fs0[x] /\ fs[x] # Absent

C1_Witness ==
    /\ FollowsCleanSuccess
    /\ pc = "exited"
    /\ exitStatus = 0
    /\ skipped = {"phase1", "compile", "phase2"}
    /\ calls = << >>

\* some invocation of the current run returned non-zero
SomeCallFailed == \E i \in 1..Len(calls) : ~calls[i].ok

\* C2: once a circom or snarkjs invocation has returned non-zero, that
\* invocation is the last of the run (no later invocation, no retry), nothing
\* is deleted or written afterwards, and the script has exited with a
\* non-zero status.
C2_FailFast ==
    SomeCallFailed =>
        /\ \A i \in 1..Len(calls) : ~calls[i].ok => i = Len(calls)
        /\ pc = "exited"
        /\ exitStatus > 0
        /\ fs = failSnap
        /\ cleaned \cap {StageOf(calls[Len(calls)].pc)} = {}

C2_Witness ==
    /\ pc = "exited"
    /\ exitStatus = 1
    /\ Len(calls) = 10
    /\ calls[10] = [pc |-> "pot_verify_final", ok |-> FALSE]
    /\ \A x \in PtauIntermediates(power) : Exists(x)

\* C3: a stage is skipped as complete only if its terminal artifact passed
\* the stage's final verification in an earlier run: the Powers of Tau stage
\* is skipped only when pot<N>_final.ptau was verified, the Groth16 stage only
\* when <name>_final.zkey was verified.  Stated for terminal artifacts that
\* were written completely, so that a violation never rests on a torn write.
C3_SkipOnlyVerified ==
    ArgsAccepted =>
        /\ ("phase1" \in skipped /\ Readable(PTAU_FILE(power)))
              => PTAU_FILE(power) \in verified
        /\ ("phase2" \in skipped /\ Readable(FINAL_ZKEY(Name)))
              => FINAL_ZKEY(Name) \in verified

\* the positions whose command is one of groth16 setup, zkey contribute,
\* zkey bellman contribute and zkey beacon
Phase2CeremonyPcs == {"zkey_setup", "zkey_contribute1", "zkey_contribute2",
                      "zkey_bellman_contribute", "zkey_beacon"}

\* C4: a run that finds <name>_final.zkey present invokes no groth16 setup,
\* zkey contribute, zkey bellman or zkey beacon operation and leaves
\* <name>_final.zkey as it found it, whether or not verification_key.json
\* exists.  Stated for a <name>_final.zkey that was written completely.
C4_FinalZkeyNeverRedone ==
    (ArgsAccepted /\ fs0[FINAL_ZKEY(Name)] \notin {Absent, Partial}) =>
        /\ \A i \in 1..Len(calls) : calls[i].pc \notin Phase2CeremonyPcs
        /\ fs[FINAL_ZKEY(Name)] = fs0[FINAL_ZKEY(Name)]

\* C5: groth16 setup is about to be invoked only in a state where
\* pot<N>_final.ptau and <name>.r1cs exist, and the verification-key export
\* only in a state where <name>_final.zkey exists.
C5_InputsExistAtInvocation ==
    /\ pc = "zkey_setup" => Exists(PTAU_FILE(power)) /\ Exists(R1cs(Name))
    /\ pc = "zkey_export_vk" => Exists(FINAL_ZKEY(Name))

C5_Witness ==
    /\ pc = "zkey_export_vk"
    /\ Exists(FINAL_ZKEY(Name))
    /\ \E i \in 1..Len(calls) : calls[i] = [pc |-> "zkey_setup", ok |-> TRUE]
    /\ "phase1" \in skipped

\* position in calls of the first invocation made at p, 0 when there is none
FirstCall(p) ==
    IF \E i \in 1..Len(calls) : calls[i].pc = p
    THEN CHOOSE i \in 1..Len(calls) : calls[i].pc = p /\ \A j \in 1..(i - 1) : calls[j].pc # p
    ELSE 0

\* C6: in a run that starts with no artifacts and in which every invocation
\* succeeds, circom is invoked before the first powersoftau operation, which
\* is invoked before groth16 setup, which is invoked before the
\* verification-key export.
C6_CompileBeforePhase1 ==
    (pc = "exited" /\ exitStatus = 0 /\ fs0 = NoFiles) =>
        /\ 0 < FirstCall("circom")
        /\ FirstCall("circom") < FirstCall("pot_new")
        /\ FirstCall("pot_new") < FirstCall("zkey_setup")
        /\ FirstCall("zkey_setup") < FirstCall("zkey_export_vk")

\* the two ceremony stages, their terminal artifacts and intermediate files
CeremonyStages == {"phase1", "phase2"}
Terminal(st) == IF st = "phase1" THEN PTAU_FILE(power) ELSE FINAL_ZKEY(Name)
IntermediatesOf(st) ==
    IF st = "phase1" THEN PtauIntermediates(power) ELSE ZkeyIntermediates(Name)
TerminalVerified(st) == Exists(Terminal(st)) /\ Terminal(st) \in verified

VerifyPcs == {"pot_verify", "pot_verify_final", "zkey_verify", "zkey_verify_final"}

\* a step removes a file only if it is an intermediate file of a stage whose
\* final verify has already succeeded in this run
C8_DeletionStep ==
    \A x \in Files :
        (fs[x] # Absent /\ fs'[x] = Absent) =>
            \E st \in CeremonyStages : x \in IntermediatesOf(st) /\ st \in verifiedRun

\* after a failed verify, every file present at the failure is still present
C8_KeptAfterFailedVerify ==
    (\E i \in 1..Len(calls) : ~calls[i].ok /\ calls[i].pc \in VerifyPcs) =>
        \A x \in Files : failSnap[x] # Absent => fs[x] # Absent

\* C8: no intermediate file of a stage is deleted in a run unless that run's
\* final verification of the stage's terminal artifact has already succeeded,
\* and when a verify invocation fails every intermediate file present at that
\* moment is still present when the run ends.
C8_CleanupAfterVerify == [][C8_DeletionStep]_vars /\ []C8_KeptAfterFailedVerify

C8_Witness ==
    /\ pc = "exited"
    /\ "phase1" \in cleaned
    /\ \A x \in IntermediatesOf("phase1") : ~Exists(x)
    /\ calls[Len(calls)] = [pc |-> "zkey_verify", ok |-> FALSE]
    /\ \E x \in IntermediatesOf("phase2") : Exists(x)

\* the files of a ceremony chain, in the order the claim gives them
ExpectedChain(st) ==
    IF st = "phase1"
    THEN <<Pot("0000", power), Pot("0001", power), Pot("0002", power), Challenge, Response,
           Pot("0003", power), PotBeacon(power), PTAU_FILE(power)>>
    ELSE <<Zkey("0000", Name), Zkey("0001", Name), Zkey("0002", Name), ChallengeP2(Name),
           ResponseP2(Name), Zkey("0003", Name), FINAL_ZKEY(Name)>>

\* the export of the verification key follows the phase-2 chain and is not part of it
ChainPcs(st) == IF st = "phase1" THEN Phase1Pcs ELSE Phase2Pcs \ {"zkey_export_vk"}
ChainInitPcs == {"pot_new", "zkey_setup"}
CallIns(c)  == Ins(c.pc, circomFile, power)
CallOuts(c) == Outs(c.pc, circomFile, power)

\* the successful file-producing invocations of a chain, in order
Producers(st) == SelectSeq(calls, LAMBDA c : c.pc \in ChainPcs(st) /\ c.ok /\ CallOuts(c) # {})

\* invocation j is the last file-producing invocation before invocation i
IsPrevProducer(j, i) ==
    /\ j < i
    /\ CallOuts(calls[j]) # {}
    /\ \A k \in (j + 1)..(i - 1) : CallOuts(calls[k]) = {}

\* C9: in both ceremony chains (a) the files are produced in the order
\* 0000, 0001, 0002, challenge, response, 0003, beacon output (then, in phase 1
\* only, the final file made by prepare-phase2 from the beacon output; in
\* phase 2 the beacon output is the final file), (b) every step after the
\* first reads the output of the file-producing step just before it, and
\* (c) a step about to run reads chain files written earlier in the same run.
C9_ChainIntegrity ==
    ArgsAccepted =>
        /\ \A st \in CeremonyStages :
              /\ Len(Producers(st)) <= Len(ExpectedChain(st))
              /\ \A i \in 1..Len(Producers(st)) :
                    CallOuts(Producers(st)[i]) = {ExpectedChain(st)[i]}
        /\ \A i \in 1..Len(calls) :
              calls[i].pc \in (Phase1Pcs \cup Phase2Pcs) \ ChainInitPcs =>
                  \E j \in 1..(i - 1) :
                      /\ IsPrevProducer(j, i)
                      /\ calls[j].ok
                      /\ CallOuts(calls[j]) \subseteq CallIns(calls[i])
        /\ \A i \in 1..Len(calls) :
              /\ PTAU_FILE(power) \in CallOuts(calls[i]) =>
                    calls[i].pc = "pot_prepare_phase2" /\ CallIns(calls[i]) = {PotBeacon(power)}
              /\ FINAL_ZKEY(Name) \in CallOuts(calls[i]) => calls[i].pc = "zkey_beacon"
        /\ \A st \in CeremonyStages :
              pc \in ChainPcs(st) =>
                  \A x \in Ins(pc, circomFile, power) \cap
                           (IntermediatesOf(st) \cup {Terminal(st)}) : fs[x] = runNo

C9_Witness ==
    /\ ArgsAccepted
    /\ runNo = 2
    /\ fs0[Pot("0001", power)] = 1
    /\ fs0[PTAU_FILE(power)] = Absent
    /\ pc = "exited"
    /\ exitStatus = 0
    /\ Len(Producers("phase1")) = 8
    /\ Len(Producers("phase2")) = 7

\* the arguments or the PATH of the current run are not acceptable
C10_Invalid ==
    \/ circomFile = << >>
    \/ circomFile \notin SourceFiles
    \/ Len(circomFile) < 7
    \/ SubSeq(circomFile, Len(circomFile) - 6, Len(circomFile)) # <<".", "c", "i", "r", "c", "o", "m">>
    \/ power = << >>
    \/ \E i \in 1..Len(power) : power[i] \notin Digits
    \/ "circom" \notin onPath
    \/ "snarkjs" \notin onPath

\* C10: a run whose circuit path is empty, is not an existing file or lacks
\* the .circom extension, whose exponent is empty or not a string of decimal
\* digits, or that does not find circom or snarkjs on PATH, exits with a
\* non-zero status without creating a directory, invoking a tool or changing
\* a file.
C10_RejectedBeforeAnyEffect ==
    (runNo >= 1 /\ C10_Invalid) =>
        /\ pc \in {"validate", "exited"}
        /\ pc = "exited" => exitStatus > 0
        /\ dirs = dirs0
        /\ fs = fs0
        /\ calls = << >>

C10_Witness ==
    /\ pc = "exited"
    /\ exitStatus = 1
    /\ circomFile = ArgCircuit
    /\ power = Power12
    /\ onPath = {"circom", "uuidgen"}
    /\ runNo = 2
    /\ dirs0 = {"powersOfTau"}

\* C11: a run that finds pot<N>_final.ptau present invokes no powersoftau
\* operation and leaves the file as it found it, whatever the circuit is; and
\* when a successful run from an empty store is followed by a successful run
\* with another circuit and the same exponent, the file is still the one the
\* first run made: the two runs performed the Powers of Tau ceremony once.
C11_PtauSharedAcrossCircuits ==
    /\ (ArgsAccepted /\ fs0[PTAU_FILE(power)] # Absent) =>
           /\ \A i \in 1..Len(calls) : calls[i].pc \notin Phase1Pcs
           /\ "phase1" \notin cleaned
           /\ fs[PTAU_FILE(power)] = fs0[PTAU_FILE(power)]
    /\ (/\ runNo >= 2 /\ prev.exit = 0 /\ prev.fromEmpty
        /\ prev.power = power /\ prev.circomFile # circomFile
        /\ pc = "exited" /\ exitStatus = 0) =>
           fs[PTAU_FILE(power)] = runNo - 1

C11_Witness ==
    /\ runNo = 2 /\ prev.exit = 0 /\ prev.fromEmpty
    /\ prev.power = power /\ prev.circomFile = ArgCircuit /\ circomFile = ArgOther
    /\ pc = "exited" /\ exitStatus = 0
    /\ "phase1" \in skipped
    /\ fs[PTAU_FILE(power)] = 1
    /\ fs[FINAL_ZKEY(Name)] = 2

\* C12: a run that finds <name>.r1cs present does not invoke circom and
\* leaves <name>.r1cs as it found it, whether or not the circuit source was
\* edited since and whether or not the wasm output exists.
C12_CompileSkippedIfR1cs ==
    (ArgsAccepted /\ fs0[R1cs(Name)] # Absent) =>
        /\ \A i \in 1..Len(calls) : calls[i].pc \notin CompilePcs
        /\ fs[R1cs(Name)] = fs0[R1cs(Name)]

C12_Witness ==
    /\ ArgsAccepted
    /\ pc = "gate_vk"
    /\ "compile" \in skipped
    /\ fs0[R1cs(Name)] # Absent
    /\ fs0[Wasm(Name)] = Absent
    /\ source[circomFile] = runNo

\* a verification key that exists was exported from the final zkey on disk
C13_KeyMatchesZkey ==
    \A n \in ValidNames :
        /\ Exists(VK_JSON(n)) => Readable(FINAL_ZKEY(n))
        /\ Readable(VK_JSON(n)) => fs[VK_JSON(n)] = fs[FINAL_ZKEY(n)]

\* no step changes a final zkey while a verification key exists beside it
C13_ZkeyKeptStep ==
    \A n \in ValidNames :
        Exists(VK_JSON(n)) => fs'[FINAL_ZKEY(n)] = fs[FINAL_ZKEY(n)]

\* C13: in every state reached from an empty store by any sequence of runs,
\* aborted or not, a verification_key.json that exists was exported from the
\* version of <name>_final.zkey on disk, and no step overwrites
\* <name>_final.zkey while a verification_key.json remains.
C13_VkFromCurrentZkey == []C13_KeyMatchesZkey /\ [][C13_ZkeyKeptStep]_vars

C13_Witness ==
    /\ runNo = 2
    /\ pc = "exited"
    /\ exitStatus = 0
    /\ fs0[FINAL_ZKEY(Name)] = 1
    /\ fs0[VK_JSON(Name)] = Absent
    /\ fs[FINAL_ZKEY(Name)] = 2
    /\ fs[VK_JSON(Name)] = 2

\* the kinds of file the claim allows the pipeline to remove
C14_Removable ==
    {"pot_0000", "pot_0001", "pot_0002", "pot_0003", "pot_beacon",
     "challenge_0003", "response_0003",
     "zkey_0000", "zkey_0001", "zkey_0002", "zkey_0003",
     "challenge_phase2_0003", "response_phase2_0003"}

C14_Step == \A x \in Files : (fs[x] # Absent /\ fs'[x] = Absent) => x[1] \in C14_Removable

\* C14: no step removes pot<N>_final.ptau, <name>.r1cs, the wasm or sym
\* output, <name>_final.zkey or verification_key.json: a file that a step
\* removes is a numbered ptau or zkey file, the beacon ptau or a
\* challenge/response file.
C14_OnlyIntermediatesRemoved == [][C14_Step]_vars

C14_Witness ==
    /\ pc = "exited"
    /\ exitStatus = 0
    /\ cleaned = {"phase1", "phase2"}
    /\ \A x \in {PTAU_FILE(power), R1cs(Name), Wasm(Name), Sym(Name), FINAL_ZKEY(Name),
                  VK_JSON(Name)} : fs[x] = runNo
    /\ \A x \in Files : x[1] \in C14_Removable => fs[x] = Absent

\* a run with acceptable arguments is past validation and finds no artifact
C15_Started == pc = "gate_ptau" /\ fs = NoFiles

C15_Done ==
    /\ pc = "exited"
    /\ exitStatus = 0
    /\ \A x \in {PTAU_FILE(power), R1cs(Name), FINAL_ZKEY(Name), VK_JSON(Name)} : Readable(x)
    /\ \A x \in PtauIntermediates(power) \cup ZkeyIntermediates(Name) : ~Exists(x)

\* C15: when every invocation succeeds, a run with valid inputs that starts
\* from a store with no artifacts terminates with exit status 0, with
\* pot<N>_final.ptau, <name>.r1cs, <name>_final.zkey and verification_key.json
\* present and no intermediate file of either ceremony left.
C15_FullRunSucceeds == C15_Started ~> C15_Done

C15_Witness ==
    /\ C15_Done
    /\ fs0 = NoFiles
    /\ Len(calls) = 23

\* C16: every token given to a contribute or challenge-contribute invocation
\* is a string of at least 40 hexadecimal characters, that is, of at least
\* 160 bits.
C16_EntropyAtLeast160Bits ==
    \A i \in 1..Len(tokens) : tokens[i].len >= 40 /\ 4 * tokens[i].len >= 160

\* the deployment transactions sent in the current run of the deployer, in order
SentOrder == SelectSeq(chain, LAMBDA e : e[1] = "sent")

\* the transaction of contract c was mined before the i-th event of the chain
MinedBefore(c, i) == \E j \in 1..(i - 1) : chain[j] = <<"mined", c>>

\* C17: deploy.go sends the deployment transactions in the order Mimc,
\* Verifier, zkLogin; the Verifier transaction is sent only after the Mimc
\* transaction was mined and the zkLogin transaction only after the Verifier
\* transaction was mined; and zkLogin is deployed with the addresses that the
\* Mimc and Verifier deployments of the same run returned.
C17_DeployOrder ==
    /\ \A i \in 1..Len(SentOrder) : SentOrder[i] = <<"sent", <<"mimc", "verifier", "zklogin">>[i]>>
    /\ Len(SentOrder) <= 3
    /\ \A i \in 1..Len(chain) :
          /\ chain[i] = <<"sent", "verifier">> => MinedBefore("mimc", i)
          /\ chain[i] = <<"sent", "zklogin">> => MinedBefore("mimc", i) /\ MinedBefore("verifier", i)
    /\ (\E i \in 1..Len(chain) : chain[i] = <<"sent", "zklogin">>) =>
          /\ zkArgs.mimc = <<"mimc", dRun>>
          /\ zkArgs.verifier = <<"verifier", dRun>>
          /\ zkArgs.mimc = addr["mimc"]
          /\ zkArgs.verifier = addr["verifier"]

C17_Witness ==
    /\ dRun = 2
    /\ dpc = "d_exited"
    /\ dExit = 0
    /\ Len(chain) = 6
    /\ zkArgs.mimc = <<"mimc", 2>>
    /\ addressesJson.written

\* the beacon of a chain, the file of its third contribution, and its
\* contribute, challenge-contribute and import-response steps
BeaconPc(st) == IF st = "phase1" THEN "pot_beacon" ELSE "zkey_beacon"
ThirdFile(st) == IF st = "phase1" THEN Pot("0003", power) ELSE Zkey("0003", Name)
ContributionPcs(st) ==
    IF st = "phase1"
    THEN {"pot_contribute1", "pot_contribute2", "pot_challenge_contribute", "pot_import_response"}
    ELSE {"zkey_contribute1", "zkey_contribute2", "zkey_bellman_contribute", "zkey_import_bellman"}

\* among the first n invocations of the run, a verify of the chain's _0003 file succeeded
ThirdVerified(st, n) ==
    \E j \in 1..n :
        /\ calls[j].pc \in VerifyPcs
        /\ calls[j].ok
        /\ ThirdFile(st) \in CallIns(calls[j])

\* C18: in each ceremony chain the beacon is invoked only after a verify of
\* the _0003 file has succeeded, and after the beacon no contribute,
\* challenge-contribute or import-response operation of that chain is invoked.
C18_BeaconClosesChain ==
    ArgsAccepted =>
        \A st \in CeremonyStages :
            /\ pc = BeaconPc(st) => ThirdVerified(st, Len(calls))
            /\ \A i \in 1..Len(calls) :
                  calls[i].pc = BeaconPc(st) =>
                      /\ ThirdVerified(st, i - 1)
                      /\ \A k \in (i + 1)..Len(calls) : calls[k].pc \notin ContributionPcs(st)

C18_Witness ==
    /\ ArgsAccepted
    /\ pc = "exited"
    /\ exitStatus = 0
    /\ \E i \in 1..Len(calls) : calls[i].pc = "pot_beacon" /\ calls[i].ok
    /\ \E i \in 1..Len(calls) : calls[i].pc = "zkey_beacon" /\ calls[i].ok

\* the invocations of the current run that were given -e, in order
EntropyCalls == SelectSeq(calls, LAMBDA c : c.pc \in EntropyPcs)

\* C19: every contribute or challenge-contribute invocation is given a token
\* that comes from its own call of the generator, made in the same run: no
\* two invocations receive the output of the same call, and a full run makes
\* six such invocations.
C19_FreshTokenPerInvocation ==
    /\ Len(tokens) = Len(EntropyCalls)
    /\ \A i \in 1..Len(tokens) :
          /\ tokens[i].pc = EntropyCalls[i].pc
          /\ tokens[i].gen[1] = runNo
          /\ \A j \in 1..Len(tokens) : i # j => tokens[i].gen # tokens[j].gen
    /\ (pc = "exited" /\ exitStatus = 0 /\ ArgsAccepted /\ skipped = {}) => Len(tokens) = 6

C19_Witness ==
    /\ runNo = 2
    /\ pc = "exited"
    /\ exitStatus = 0
    /\ skipped = {}
    /\ Len(tokens) = 6
    /\ fs0[Pot("0001", power)] = 1

\* C20: a failing deletion is not fatal: a run with valid inputs in which no
\* circom or snarkjs invocation fails, and that is not interrupted, ends with
\* exit status 0, whether or not an rm -f returned non-zero.
C20_RmFailureNonFatal ==
    (pc = "exited" /\ ArgsAccepted /\ ~SomeCallFailed /\ exitStatus # 130) => exitStatus = 0

\* the terminal artifacts of the four stages (compile, phase 1, phase 2, export)
StageTerminals == {R1cs(Name), PTAU_FILE(power), FINAL_ZKEY(Name), VK_JSON(Name)}

\* invocation j is a successful call that reads x and writes nothing: a check of x
IsCheckOf(j, x) == calls[j].ok /\ CallOuts(calls[j]) = {} /\ x \in CallIns(calls[j])

\* the run has reached its completion report
Completed == pc = "report" \/ (pc = "exited" /\ exitStatus = 0)

\* C21: every stage that is executed makes a verification call on its terminal
\* artifact after producing it: before any later invocation uses the artifact
\* to produce another file, and before the run reports completion.
C21_EveryStageVerified ==
    ArgsAccepted =>
        \A x \in StageTerminals :
            \A i \in 1..Len(calls) :
                (calls[i].ok /\ x \in CallOuts(calls[i])) =>
                    /\ \A k \in (i + 1)..Len(calls) :
                          (x \in CallIns(calls[k]) /\ CallOuts(calls[k]) # {}) =>
                              \E j \in (i + 1)..(k - 1) : IsCheckOf(j, x)
                    /\ Completed => \E j \in (i + 1)..Len(calls) : IsCheckOf(j, x)

\* the initialization step the claim names for each ceremony stage
InitStepOf(st) == IF st = "phase1" THEN "pot_new" ELSE "zkey_setup"

\* the invocations of the current run that belong to the chain of stage st
StageCalls(st) == {i \in 1..Len(calls) : calls[i].pc \in ChainPcs(st)}

\* C22: a run that finds the terminal artifact of a ceremony stage absent does
\* not skip the stage and starts it at its initialization step, whatever was
\* left behind by an earlier run: the first invocation of the stage is
\* powersoftau new (groth16 setup), every intermediate file an invocation of
\* the stage reads was written earlier in the same run, and every entropy
\* token of the stage comes from a generator call of the same run.
C22_RestartsFromInit ==
    ArgsAccepted =>
        \A st \in CeremonyStages :
            fs0[Terminal(st)] = Absent =>
                /\ st \notin skipped
                /\ (pc \in ChainPcs(st) /\ StageCalls(st) = {}) => pc = InitStepOf(st)
                /\ \A i \in StageCalls(st) :
                      /\ \E j \in 1..i :
                            /\ calls[j].pc = InitStepOf(st)
                            /\ \A k \in 1..(j - 1) : k \notin StageCalls(st)
                      /\ \A x \in CallIns(calls[i]) \cap IntermediatesOf(st) :
                            \E j \in 1..(i - 1) : calls[j].ok /\ x \in CallOuts(calls[j])
                /\ \A t \in 1..Len(tokens) : tokens[t].gen[1] = runNo

\* a second run finds the files of two interrupted chains and no terminal
\* artifact, and redoes both ceremonies from their first step
C22_Witness ==
    /\ ArgsAccepted
    /\ runNo = 2
    /\ fs0[Pot("0002", power)] = 1
    /\ fs0[PTAU_FILE(power)] = Absent
    /\ fs0[FINAL_ZKEY(Name)] = Absent
    /\ pc = "exited"
    /\ exitStatus = 0
    /\ calls[1] = [pc |-> "pot_new", ok |-> TRUE]
    /\ fs[PTAU_FILE(power)] = 2
    /\ fs[FINAL_ZKEY(Name)] = 2

\* every run so far was given the circuit and exponent of the current run, the
\* first of them started from an empty store, and none was interrupted
SameInputsThroughout ==
    \/ runNo = 1
    \/ /\ runNo = 2
       /\ prev.fromEmpty
       /\ prev.circomFile = circomFile
       /\ prev.power = power
       /\ prev.exit # 130

\* C23: after any sequence of runs with the same circuit and exponent, each
\* of which may fail at a tool invocation, a run that ends with exit status 0
\* leaves no intermediate file of either ceremony stage behind.
C23_NoIntermediatesAfterSuccess ==
    (pc = "exited" /\ exitStatus = 0 /\ ArgsAccepted /\ SameInputsThroughout) =>
        \A st \in CeremonyStages : \A x \in IntermediatesOf(st) : ~Exists(x)

\* the four outputs the completion report lists as available
ReportedOutputs == {PTAU_FILE(power), R1cs(Name), FINAL_ZKEY(Name), VK_JSON(Name)}

\* C24: in every state reached from an empty store by any sequence of runs, a
\* run that ends with exit status 0 leaves pot<N>_final.ptau, <name>.r1cs,
\* <name>_final.zkey and verification_key.json present, and a run that took
\* the skip branch of phase 2 has <name>_final.zkey on disk.
C24_SuccessLeavesAllOutputs ==
    ArgsAccepted =>
        /\ (pc = "exited" /\ exitStatus = 0) => \A x \in ReportedOutputs : Exists(x)
        /\ "phase2" \in skipped => Exists(FINAL_ZKEY(Name))

\* a run that failed after the export is followed by a run that takes the skip
\* branch of phase 2 and succeeds
C24_Witness ==
    /\ ArgsAccepted
    /\ runNo = 2
    /\ prev.exit = 1
    /\ fs0[VK_JSON(Name)] = 1
    /\ "phase2" \in skipped
    /\ pc = "exited"
    /\ exitStatus = 0
    /\ \A x \in ReportedOutputs : Exists(x)

\* C25: once a run has passed input validation, the circuit name derived from
\* its --circom path is not empty, so <name>.r1cs, <name>_final.zkey and the
\* build directory carry a non-empty name component.
C25_NameNonEmpty ==
    (ArgsAccepted /\ pc # "validate") => Len(CIRCOM_NAME(circomFile)) >= 1

\* C27: when the entropy generator cannot be run, the run ends with a
\* non-zero status before any contribute or challenge-contribute invocation
\* is made, and no such invocation is ever given an empty entropy value.
C27_NoEmptyEntropy ==
    /\ \A t \in 1..Len(tokens) : tokens[t].len >= 1
    /\ (runNo >= 1 /\ "uuidgen" \notin onPath) =>
          /\ EntropyCalls = << >>
          /\ pc \in {"report", "exited"} => exitStatus \notin {-1, 0}

\* the files a run with circuit f and exponent w can write
WrittenBy(f, w) == UNION {Outs(p, f, w) : p \in ToolPcs}

\* the files such a run can test, read, write or delete
TouchedBy(f, w) ==
    WrittenBy(f, w)
    \cup UNION {Ins(p, f, w) : p \in ToolPcs}
    \cup UNION {RmFiles(p, f, w) : p \in RmPcs}
    \cup {Phase1GateFile(w), CompileGateFile(CIRCOM_NAME(f)), Phase2GateFile(CIRCOM_NAME(f))}

\* the previous run was given another circuit+exponent pair, wrote files and
\* ended with exit status 0
OtherPairRanBefore ==
    /\ runNo >= 2
    /\ prev.exit = 0
    /\ <<prev.circomFile, prev.power>> # <<circomFile, power>>
    /\ \E x \in Files : fs0[x] = runNo - 1

\* C26: two runs with different circuit+exponent pairs have nothing in
\* common: no file that one of them writes is tested, read, written or
\* deleted by the other, so they may execute at the same time.
C26_DisjointFootprints ==
    (ArgsAccepted /\ OtherPairRanBefore) =>
        WrittenBy(prev.circomFile, prev.power) \cap TouchedBy(circomFile, power) = {}

\* the steps at which a deployment, a mining wait or a code read can fail
OnChainPcs == DeployPcs \cup WaitPcs \cup CodePcs

\* the three entries of a complete addresses.json, for the addresses of this run
ThreeEntries ==
    <<<<"mimc", NewAddr("mimc", dRun)>>, <<"verifier", NewAddr("verifier", dRun)>>,
      <<"zklogin", NewAddr("zklogin", dRun)>>>>

\* contract c was deployed, mined and added to the address record in this run
DeployedMinedAdded(c) ==
    /\ \E i \in 1..Len(chain) : chain[i] = <<"sent", c>>
    /\ \E i \in 1..Len(chain) : chain[i] = <<"mined", c>>
    /\ \E i \in 1..Len(book) : book[i][1] = c

\* no entry of addresses.json is an address of the current run
NothingSavedByThisRun ==
    \A i \in 1..Len(addressesJson.entries) : addressesJson.entries[i][2][2] # dRun

C28_Step ==
    /\ (dpc \in OnChainPcs /\ dExit' = 1) =>
          (dpc' = "d_exited" /\ addressesJson' = addressesJson)
    /\ addressesJson' # addressesJson =>
          /\ \A c \in Contracts : DeployedMinedAdded(c)
          /\ addressesJson'.entries = ThreeEntries

\* C28: a deployment, mining wait or code read that returns an error ends the
\* program without addresses.json being written by that run; addresses.json
\* is written only after Mimc, Verifier and zkLogin have each been deployed,
\* mined and added to the record, and it then holds exactly these three
\* entries.
C28_SaveOnlyAfterAll ==
    /\ [](dExit = 1 => NothingSavedByThisRun)
    /\ [][C28_Step]_vars

\* the second run of the deployer ends on a failed mining wait for zkLogin:
\* addresses.json still is the file the first run wrote
C28_Witness ==
    /\ dRun = 2
    /\ dExit = 1
    /\ Len(chain) = 5
    /\ chain[5] = <<"sent", "zklogin">>
    /\ Len(book) = 2
    /\ addressesJson.written
    /\ Len(addressesJson.entries) = 3
    /\ addressesJson.entries[3] = <<"zklogin", NewAddr("zklogin", 1)>>

\* the contracts whose address is in the record, and in the file for this run
Recorded == {book[i][1] : i \in 1..Len(book)}
SavedByThisRun ==
    {addressesJson.entries[i][1] :
        i \in {j \in 1..Len(addressesJson.entries) : addressesJson.entries[j][2][2] = dRun}}

\* the deployment transaction of c was mined with receipt status 1
Succeeded(c) == receipts[c] = 1

\* the deployment transaction of c was mined: WaitMined returned a receipt
Mined(c) == \E i \in 1..Len(chain) : chain[i] = <<"mined", c>>

\* C29 as stated: an address is recorded, saved to addresses.json, and the
\* deployer finishes successfully, only if the contract's deployment
\* transaction succeeded (receipt status 1, hence code at the address).
C29_SavedOnlyIfSucceeded ==
    /\ \A c \in Recorded \cup SavedByThisRun : Succeeded(c)
    /\ dExit = 0 => \A c \in Contracts : Succeeded(c)

\* C29 (amended): an address is recorded, saved to addresses.json, and the
\* deployer finishes successfully, only if the contract's deployment
\* transaction was mined; the receipt status plays no part.
C29_SavedOnlyIfMined ==
    /\ \A c \in Recorded \cup SavedByThisRun : Mined(c)
    /\ dExit = 0 => (\A c \in Contracts : Mined(c)) /\ SavedByThisRun = Contracts

\* the constructor of zkLogin reverted, and its address is in addresses.json
\* of a deployer that finished successfully
C29_Witness ==
    /\ dExit = 0
    /\ receipts["zklogin"] = 0
    /\ receipts["mimc"] = 1
    /\ "zklogin" \in SavedByThisRun
    /\ addressesJson.entries = ThreeEntries

\* the positions of the non-nil entries of the slice ExtractAddresses returned
NonNilAt == {i \in 1..Len(rawFB) : rawFB[i] # Nil}

\* the position in rawFB of its k-th non-nil entry
KthNonNil(k) ==
    CHOOSE i \in NonNilAt : Cardinality({j \in NonNilAt : j <= i}) = k

\* main has called derefAddresses in this run
DerefDone ==
    dpc \in {"deploy_zklogin", "wait_zklogin", "code_zklogin", "add_zklogin", "save", "finish"}

\* C30: derefAddresses returns exactly the non-nil entries of its input, in
\* their original order: the result has as many entries as the input has
\* non-nil ones, its k-th entry is the k-th non-nil entry of the input, and
\* the call never fails.
C30_DerefKeepsNonNilInOrder ==
    /\ DerefDone =>
          /\ Len(fb) = Cardinality(NonNilAt)
          /\ \A k \in 1..Len(fb) : fb[k] = rawFB[KthNonNil(k)]
    /\ dpc = "deref" => ENABLED DDeref

\* a nil entry between two addresses is dropped and the two keep their order
C30_Witness ==
    /\ dpc = "deploy_zklogin"
    /\ rawFB = <<"0xF2", Nil, "0xF1">>
    /\ fb = <<"0xF2", "0xF1">>

====
